---- MODULE Spec2Model ----
(***************************************************************************)
(* Secret loader of website/secrets_plugin.py: init_secret_manager, the    *)
(* provider resolver _identify_provider and the two fetchers               *)
(* _fetch_aws_secrets and _fetch_azure_secrets.  The provider SDKs (boto3, *)
(* azure.identity, azure.keyvault.secrets) are external: every call into   *)
(* them either raises or returns a value drawn from a small set.           *)
(***************************************************************************)
EXTENDS Naturals, Sequences, FiniteSets

VARIABLES
    config,         \* app.config, the mapping the loader mutates
    cfg0,           \* app.config as it was when the call started
    env,            \* os.environ restricted to the two marker variables
    entry,          \* which function the caller invoked
    pc,             \* position of the call
    provider,       \* local `provider` of init_secret_manager once dispatched
    secret_name,    \* local `secret_name` of init_secret_manager
    key_vault_name, \* local `key_vault_name` of _fetch_azure_secrets
    response,       \* local `response` of _fetch_aws_secrets
    listing,        \* the names list_properties_of_secrets iterates over
    idx,            \* number of listed properties the for loop has taken
    fetched,        \* secrets returned by get_secret so far
    fault,          \* first exception raised inside a fetcher
    faultAt,        \* Len(fetched) when that exception was raised
    calls,          \* functions and SDK operations invoked, in order
    printed,        \* messages passed to print, in order
    raised,         \* exception that left the invoked function
    retval          \* value returned by a direct _identify_provider call

vars == <<config, cfg0, env, entry, pc, provider, secret_name, key_vault_name,
          response, listing, idx, fetched, fault, faultAt, calls, printed,
          raised, retval>>

----------------------------------------------------------------------------
(* Bounds *)

MaxSecrets == 2     \* longest vault listing
MaxPairs == 2       \* most key/value pairs in a SecretString object

----------------------------------------------------------------------------
(* Values *)

None == "<None>"        \* Python None
Absent == "<absent>"    \* key not in the mapping / variable not in os.environ
NoFault == "<no fault>"
Raise == "ValueError"   \* _identify_provider's raise

Keys == {"SECRET_NAME", "SECRET_PROVIDER", "A", "B"}
SecretValues == {None, "", "1"}
PropNames == {None, "", "A", "B"}
FetchedNames == {None, "A", "B"}
EnvValues == {Absent, "", "1"}
EnvNames == {"LAMBDA_TASK_ROOT", "WEBSITE_INSTANCE_ID"}

Configs ==
    {c \in [Keys -> {Absent, None, "", "0", "testeeduardo", "aws", "azure", "AWS"}] :
        /\ c["SECRET_NAME"] \in {Absent, None, "", "testeeduardo"}
        /\ c["SECRET_PROVIDER"] \in {Absent, None, "", "aws", "azure", "AWS"}
        /\ c["A"] \in {Absent, "0"}
        /\ c["B"] = Absent}

Envs == [EnvNames -> EnvValues]

RECURSIVE SeqsUpTo(_, _)
SeqsUpTo(S, n) ==
    IF n = 0 THEN {<<>>}
    ELSE LET shorter == SeqsUpTo(S, n - 1)
         IN  shorter \cup {Append(s, x) : s \in shorter, x \in S}

Pairs == Keys \X SecretValues

AwsResponses ==
    {[has |-> FALSE, kind |-> "none", pairs |-> <<>>]}
    \cup {[has |-> TRUE, kind |-> k, pairs |-> <<>>] :
            k \in {"none", "empty", "malformed", "nonobject"}}
    \cup {[has |-> TRUE, kind |-> "object", pairs |-> p] : p \in SeqsUpTo(Pairs, MaxPairs)}

NoResponse == [has |-> FALSE, kind |-> "unset", pairs |-> <<>>]

Listings == SeqsUpTo(PropNames, MaxSecrets)

Secrets == [name : FetchedNames, value : SecretValues]

Call(op, arg) == [op |-> op, arg |-> arg]

----------------------------------------------------------------------------
(* Pure helpers *)

IsSetTruthy(v) == v \notin {Absent, ""}
\* os.getenv(name) is not None
IsSet(v) == v # Absent

_identify_provider(e) ==
    IF IsSet(e["LAMBDA_TASK_ROOT"]) THEN "aws"
    ELSE IF IsSet(e["WEBSITE_INSTANCE_ID"]) THEN "azure"
    ELSE Raise

ConfigGetDefaultEmpty(c, k) == IF c[k] = Absent THEN "" ELSE c[k]
\* app.config.get(key)
ConfigGet(c, k) == IF c[k] = Absent THEN None ELSE c[k]

ConfigSetDefault(c, k, v) == IF c[k] = Absent THEN [c EXCEPT ![k] = v] ELSE c
\* app.config[key] = value
ConfigSet(c, k, v) == [c EXCEPT ![k] = v]

\* Python truth value of a string or None
Truthy(v) == v \notin {None, ""}

\* `secret_name is None`
SecretNameIsNone(v) == v = None

ProviderIsNoneAlways(p) == TRUE
\* `provider is None`
ProviderIsNone(p) == p = None

DispatchElse(p) ==
    IF p = "aws" THEN "aws_import" ELSE "az_import"
\* the if / elif of init_secret_manager: where control goes next
Dispatch(p) ==
    IF p = "aws" THEN "aws_import"
    ELSE IF p = "azure" THEN "az_import"
    ELSE "done"

HasStringPayloadKeyOnly(r) == r.has
\* `"SecretString" in response and response["SecretString"]`
HasStringPayload(r) == r.has /\ r.kind \notin {"none", "empty"}

VaultNameMissingNoneOnly(v) == v = None
\* `not key_vault_name`
VaultNameMissing(v) == ~Truthy(v)

AzureShouldWriteTruthyValue(s) == Truthy(s.name) /\ Truthy(s.value)
\* `secret.name and secret.value is not None`
AzureShouldWrite(s) == Truthy(s.name) /\ s.value # None

HandledImportErrorOnly(exc) == exc = "ImportError"
\* the except clauses of the fetchers: ImportError, then Exception
Handled(exc) == exc \in {"ImportError", "Exception"}

AfterFaultContinue(stage) == IF stage = "az_get" THEN "az_next" ELSE "done"
\* where a fetcher's except clause leaves control: after the try statement,
\* which is the end of the function
AfterFault(stage) == "done"

\* dict built by json.loads from the members of a JSON object, in order:
\* a repeated name keeps its first position and takes the last value
DictSet(d, k, v) ==
    IF \E i \in DOMAIN d : d[i][1] = k
    THEN [i \in DOMAIN d |-> IF d[i][1] = k THEN <<k, v>> ELSE d[i]]
    ELSE Append(d, <<k, v>>)

RECURSIVE json_loads_from(_, _)
json_loads_from(d, members) ==
    IF members = <<>> THEN d
    ELSE json_loads_from(DictSet(d, Head(members)[1], Head(members)[2]), Tail(members))

json_loads(members) == json_loads_from(<<>>, members)

\* for key, value in ....items(): app.config[key] = value
RECURSIVE MergeItems(_, _)
MergeItems(c, items) ==
    IF items = <<>> THEN c
    ELSE MergeItems(ConfigSet(c, Head(items)[1], Head(items)[2]), Tail(items))

AwsMessage(exc) ==
    IF exc = "ImportError" THEN "boto3 not available for AWS secrets"
    ELSE "Error fetching AWS secrets"

AzureMessage(exc) ==
    IF exc = "ImportError" THEN "Azure libraries not available"
    ELSE "Error fetching Azure secrets"

----------------------------------------------------------------------------
(* Initial states: one call, about to start *)

Init ==
    /\ entry \in {"init_secret_manager", "_fetch_azure_secrets", "_identify_provider"}
    /\ config \in Configs
    /\ env \in Envs
    /\ entry = "_fetch_azure_secrets" =>
            /\ config["SECRET_PROVIDER"] = Absent
            /\ env = [n \in EnvNames |-> Absent]
    /\ entry = "_identify_provider" =>
            config = [k \in Keys |-> Absent]
    /\ cfg0 = config
    /\ pc = "start"
    /\ provider = None
    /\ secret_name = None
    /\ key_vault_name = None
    /\ response = NoResponse
    /\ listing = <<>>
    /\ idx = 0
    /\ fetched = <<>>
    /\ fault = NoFault
    /\ faultAt = 0
    /\ calls = <<>>
    /\ printed = <<>>
    /\ raised = NoFault
    /\ retval = None

----------------------------------------------------------------------------
(* An exception raised inside a fetcher's try block at `stage`, after the  *)
(* calls in `made` were issued.                                            *)

Throw(exc, stage, message, made) ==
    /\ fault' = IF fault = NoFault THEN exc ELSE fault
    /\ faultAt' = IF fault = NoFault THEN Len(fetched) ELSE faultAt
    /\ calls' = calls \o made
    /\ IF Handled(exc)
       THEN /\ printed' = Append(printed, message)
            /\ pc' = AfterFault(stage)
            /\ raised' = raised
       ELSE /\ printed' = printed
            /\ pc' = "raised"
            /\ raised' = exc
    /\ UNCHANGED <<config, cfg0, env, entry, provider, secret_name, key_vault_name,
                   response, listing, idx, fetched, retval>>

----------------------------------------------------------------------------
(* init_secret_manager *)

InitSecretManager ==
    /\ pc = "start"
    /\ entry = "init_secret_manager"
    /\ LET sn == ConfigGet(config, "SECRET_NAME")
           p == ConfigGet(config, "SECRET_PROVIDER")
           resolved == _identify_provider(env)
           eff == IF ProviderIsNone(p) THEN resolved ELSE p
           resolverCall == IF ProviderIsNone(p)
                           THEN <<Call("_identify_provider", <<>>)>> ELSE <<>>
           fetcherCall == IF Dispatch(eff) = "aws_import"
                          THEN <<Call("_fetch_aws_secrets", <<sn>>)>>
                          ELSE IF Dispatch(eff) = "az_import"
                          THEN <<Call("_fetch_azure_secrets", <<>>)>>
                          ELSE <<>>
       IN  IF SecretNameIsNone(sn)
           THEN /\ pc' = "done"
                /\ UNCHANGED <<calls, provider, secret_name, raised>>
           ELSE IF ProviderIsNone(p) /\ resolved = Raise
           THEN /\ pc' = "raised"
                /\ raised' = Raise
                /\ secret_name' = sn
                /\ calls' = calls \o resolverCall
                /\ UNCHANGED provider
           ELSE /\ pc' = Dispatch(eff)
                /\ provider' = eff
                /\ secret_name' = sn
                /\ calls' = calls \o resolverCall \o fetcherCall
                /\ UNCHANGED raised
    /\ UNCHANGED <<config, cfg0, env, entry, key_vault_name, response, listing, idx,
                   fetched, fault, faultAt, printed, retval>>

\* _identify_provider called on its own
IdentifyProvider ==
    /\ pc = "start"
    /\ entry = "_identify_provider"
    /\ LET resolved == _identify_provider(env)
       IN  IF resolved = Raise
           THEN pc' = "raised" /\ raised' = Raise /\ UNCHANGED retval
           ELSE pc' = "done" /\ retval' = resolved /\ UNCHANGED raised
    /\ calls' = Append(calls, Call("_identify_provider", <<>>))
    /\ UNCHANGED <<config, cfg0, env, entry, provider, secret_name, key_vault_name,
                   response, listing, idx, fetched, fault, faultAt, printed>>

\* _fetch_azure_secrets called on its own
FetchAzureSecrets ==
    /\ pc = "start"
    /\ entry = "_fetch_azure_secrets"
    /\ pc' = "az_import"
    /\ calls' = Append(calls, Call("_fetch_azure_secrets", <<>>))
    /\ UNCHANGED <<config, cfg0, env, entry, provider, secret_name, key_vault_name,
                   response, listing, idx, fetched, fault, faultAt, printed, raised,
                   retval>>

----------------------------------------------------------------------------
(* _fetch_aws_secrets *)

\* import boto3
AwsImport ==
    /\ pc = "aws_import"
    /\ \/ /\ pc' = "aws_client"
          /\ UNCHANGED <<config, cfg0, env, entry, provider, secret_name,
                         key_vault_name, response, listing, idx, fetched, fault,
                         faultAt, calls, printed, raised, retval>>
       \/ Throw("ImportError", "aws_import", AwsMessage("ImportError"), <<>>)

\* client = boto3.client("secretsmanager")
AwsClient ==
    /\ pc = "aws_client"
    /\ LET made == <<Call("boto3.client", <<"secretsmanager">>)>>
       IN  \/ /\ pc' = "aws_get"
              /\ calls' = calls \o made
              /\ UNCHANGED <<config, cfg0, env, entry, provider, secret_name,
                             key_vault_name, response, listing, idx, fetched, fault,
                             faultAt, printed, raised, retval>>
           \/ Throw("Exception", "aws_client", AwsMessage("Exception"), made)

\* response = client.get_secret_value(SecretId=secret_name)
AwsGetSecretValue ==
    /\ pc = "aws_get"
    /\ LET made == <<Call("get_secret_value", <<secret_name>>)>>
       IN  \/ \E r \in AwsResponses :
                /\ response' = r
                /\ pc' = "aws_merge"
                /\ calls' = calls \o made
                /\ UNCHANGED <<config, cfg0, env, entry, provider, secret_name,
                               key_vault_name, listing, idx, fetched, fault, faultAt,
                               printed, raised, retval>>
           \/ Throw("Exception", "aws_get", AwsMessage("Exception"), made)

\* the if statement and the for loop over json.loads(...).items()
AwsMerge ==
    /\ pc = "aws_merge"
    /\ IF HasStringPayload(response)
       THEN LET made == <<Call("json.loads", <<>>)>>
            IN  IF response.kind = "object"
                THEN /\ config' = MergeItems(config, json_loads(response.pairs))
                     /\ pc' = "done"
                     /\ calls' = calls \o made
                     /\ UNCHANGED <<cfg0, env, entry, provider, secret_name,
                                    key_vault_name, response, listing, idx, fetched,
                                    fault, faultAt, printed, raised, retval>>
                ELSE Throw("Exception", "aws_merge", AwsMessage("Exception"), made)
       ELSE /\ pc' = "done"
            /\ UNCHANGED <<config, cfg0, env, entry, provider, secret_name,
                           key_vault_name, response, listing, idx, fetched, fault,
                           faultAt, calls, printed, raised, retval>>

----------------------------------------------------------------------------
(* _fetch_azure_secrets *)

\* from azure.identity import ...; from azure.keyvault.secrets import ...
AzureImport ==
    /\ pc = "az_import"
    /\ \/ /\ pc' = "az_name"
          /\ UNCHANGED <<config, cfg0, env, entry, provider, secret_name,
                         key_vault_name, response, listing, idx, fetched, fault,
                         faultAt, calls, printed, raised, retval>>
       \/ Throw("ImportError", "az_import", AzureMessage("ImportError"), <<>>)

\* key_vault_name = app.config.get("SECRET_NAME"); if not key_vault_name: ...
AzureReadName ==
    /\ pc = "az_name"
    /\ LET kv == ConfigGet(config, "SECRET_NAME")
       IN  /\ key_vault_name' = kv
           /\ IF VaultNameMissing(kv)
              THEN /\ printed' = Append(printed, "SECRET_NAME not configured for Azure secrets")
                   /\ pc' = "done"
              ELSE /\ printed' = printed
                   /\ pc' = "az_construct"
    /\ UNCHANGED <<config, cfg0, env, entry, provider, secret_name, response, listing,
                   idx, fetched, fault, faultAt, calls, raised, retval>>

\* credential = DefaultAzureCredential(); client = SecretClient(...)
AzureConstruct ==
    /\ pc = "az_construct"
    /\ LET cred == <<Call("DefaultAzureCredential", <<>>)>>
           both == cred \o <<Call("SecretClient",
                                  <<"https://", key_vault_name, ".vault.azure.net">>)>>
       IN  \/ /\ pc' = "az_list"
              /\ calls' = calls \o both
              /\ UNCHANGED <<config, cfg0, env, entry, provider, secret_name,
                             key_vault_name, response, listing, idx, fetched, fault,
                             faultAt, printed, raised, retval>>
           \/ Throw("Exception", "az_construct", AzureMessage("Exception"), cred)
           \/ Throw("Exception", "az_construct", AzureMessage("Exception"), both)

\* secrets = client.list_properties_of_secrets()
AzureList ==
    /\ pc = "az_list"
    /\ LET made == <<Call("list_properties_of_secrets", <<>>)>>
       IN  \/ \E l \in Listings :
                /\ listing' = l
                /\ idx' = 0
                /\ pc' = "az_next"
                /\ calls' = calls \o made
                /\ UNCHANGED <<config, cfg0, env, entry, provider, secret_name,
                               key_vault_name, response, fetched, fault, faultAt,
                               printed, raised, retval>>
           \/ Throw("Exception", "az_list", AzureMessage("Exception"), made)

\* for secret_prop in secrets: the iterator yields the next property, is
\* exhausted, or raises while it fetches a page
AzureNext ==
    /\ pc = "az_next"
    /\ \/ /\ idx < Len(listing)
          /\ idx' = idx + 1
          /\ pc' = "az_get"
          /\ UNCHANGED <<config, cfg0, env, entry, provider, secret_name,
                         key_vault_name, response, listing, fetched, fault, faultAt,
                         calls, printed, raised, retval>>
       \/ /\ idx = Len(listing)
          /\ pc' = "done"
          /\ UNCHANGED <<config, cfg0, env, entry, provider, secret_name,
                         key_vault_name, response, listing, idx, fetched, fault,
                         faultAt, calls, printed, raised, retval>>
       \/ Throw("Exception", "az_next", AzureMessage("Exception"), <<>>)

\* the body of the for loop, for secret_prop = listing[idx]
AzureGet ==
    /\ pc = "az_get"
    /\ LET name == listing[idx]
           made == <<Call("get_secret", <<name>>)>>
       IN  IF Truthy(name)
           THEN \/ \E s \in Secrets :
                     /\ fetched' = Append(fetched, s)
                     /\ config' = IF AzureShouldWrite(s)
                                  THEN ConfigSet(config, s.name, s.value)
                                  ELSE config
                     /\ pc' = "az_next"
                     /\ calls' = calls \o made
                     /\ UNCHANGED <<cfg0, env, entry, provider, secret_name,
                                    key_vault_name, response, listing, idx, fault,
                                    faultAt, printed, raised, retval>>
                \/ Throw("Exception", "az_get", AzureMessage("Exception"), made)
           ELSE /\ pc' = "az_next"
                /\ UNCHANGED <<config, cfg0, env, entry, provider, secret_name,
                               key_vault_name, response, listing, idx, fetched, fault,
                               faultAt, calls, printed, raised, retval>>

----------------------------------------------------------------------------

Next ==
    \/ InitSecretManager
    \/ IdentifyProvider
    \/ FetchAzureSecrets
    \/ AwsImport
    \/ AwsClient
    \/ AwsGetSecretValue
    \/ AwsMerge
    \/ AzureImport
    \/ AzureReadName
    \/ AzureConstruct
    \/ AzureList
    \/ AzureNext
    \/ AzureGet

Spec == Init /\ [][Next]_vars

----------------------------------------------------------------------------
(* Vocabulary of the properties, stated on the inputs of the call (cfg0,   *)
(* env) and on what the SDKs returned (response, listing, fetched).        *)

NameAtCall == IF cfg0["SECRET_NAME"] = Absent THEN None ELSE cfg0["SECRET_NAME"]
OverrideAtCall == IF cfg0["SECRET_PROVIDER"] = Absent THEN None ELSE cfg0["SECRET_PROVIDER"]
AwsMarker == env["LAMBDA_TASK_ROOT"] # Absent
AzureMarker == env["WEBSITE_INSTANCE_ID"] # Absent

ViaOrchestrator == entry = "init_secret_manager"

AwsOps == {"_fetch_aws_secrets", "boto3.client", "get_secret_value", "json.loads"}
AzureSdkOps == {"DefaultAzureCredential", "SecretClient",
                "list_properties_of_secrets", "get_secret"}
AzureOps == AzureSdkOps \cup {"_fetch_azure_secrets"}

Made(ops) == {i \in DOMAIN calls : calls[i].op \in ops}

\* value of key k once the secrets of s were merged, in order, into c0
Writes(s, k) == {i \in DOMAIN s : s[i].name = k /\ s[i].name \notin {None, ""}
                                  /\ s[i].value # None}
Last(I) == CHOOSE i \in I : \A j \in I : j <= i
AfterSecrets(c0, s, k) ==
    IF Writes(s, k) = {} THEN c0[k] ELSE s[Last(Writes(s, k))].value

\* value of key k once the members of a JSON object were merged into c0
Members(m, k) == {i \in DOMAIN m : m[i][1] = k}
AfterObject(c0, m, k) ==
    IF Members(m, k) = {} THEN c0[k] ELSE m[Last(Members(m, k))][2]

----------------------------------------------------------------------------
\* C1: fault isolation.  Once any call of the fetch layer has raised
\* (import, client construction, get_secret_value, JSON parsing, the list
\* call, the listing iterator or a per-secret get_secret), the call has
\* returned normally, and the mapping is the mapping at the call plus
\* exactly the secrets merged before the fault; nothing is written later.
C1_FaultIsolation ==
    fault # NoFault =>
        /\ pc = "done"
        /\ raised = NoFault
        /\ \A k \in Keys : config[k] = AfterSecrets(cfg0, SubSeq(fetched, 1, faultAt), k)
        /\ Len(fetched) = faultAt

C1_Witness ==
    /\ ViaOrchestrator
    /\ pc = "done"
    /\ fault = "Exception"
    /\ faultAt = 1
    /\ idx = 2
    /\ config # cfg0

\* C2 as stated: no call of init_secret_manager ends with an exception.
C2_NothingPropagates == ViaOrchestrator => pc # "raised"

Undetectable ==
    /\ NameAtCall # None
    /\ OverrideAtCall = None
    /\ ~AwsMarker
    /\ ~AzureMarker

\* C2, amended: init_secret_manager ends with an exception in exactly one
\* case, SECRET_NAME set, SECRET_PROVIDER absent or None and neither marker
\* variable set; then the ValueError of _identify_provider reaches the
\* caller, nothing was logged or fetched and the mapping is unchanged.  In
\* every other case it returns normally, and every exception of the fetch
\* layer is caught and logged once.
C2_OnlyUndetectablePropagates ==
    ViaOrchestrator =>
        /\ pc = "raised" =>
              /\ Undetectable
              /\ raised = Raise
              /\ config = cfg0
              /\ printed = <<>>
              /\ calls = <<Call("_identify_provider", <<>>)>>
        /\ pc # "start" /\ Undetectable => pc = "raised"
        /\ fault # NoFault => raised = NoFault /\ Len(printed) = 1

C2_Witness ==
    /\ ViaOrchestrator
    /\ pc = "raised"
    /\ raised = Raise
    /\ NameAtCall = "testeeduardo"

\* C3: no-op when unconfigured.  With no SECRET_NAME key in the mapping,
\* init_secret_manager returns normally, leaves the mapping unchanged, does
\* not call the resolver and makes no provider call.
C3_NoOpWhenUnconfigured ==
    ViaOrchestrator /\ cfg0["SECRET_NAME"] = Absent /\ pc # "start" =>
        /\ pc = "done"
        /\ raised = NoFault
        /\ config = cfg0
        /\ calls = <<>>
        /\ printed = <<>>

C3_Witness ==
    /\ ViaOrchestrator
    /\ cfg0["SECRET_NAME"] = Absent
    /\ cfg0["SECRET_PROVIDER"] = "aws"
    /\ AwsMarker
    /\ pc = "done"

\* C4: provider precedence.  With SECRET_NAME set and an explicit
\* SECRET_PROVIDER, the resolver is never called; override "aws" runs only
\* the AWS fetcher and override "azure" only the Azure fetcher, whatever the
\* marker variables say; at most one fetcher runs per call.
C4_ProviderPrecedence ==
    ViaOrchestrator =>
        /\ Cardinality(Made({"_fetch_aws_secrets", "_fetch_azure_secrets"})) <= 1
        /\ NameAtCall # None /\ OverrideAtCall # None /\ pc # "start" =>
              /\ Made({"_identify_provider"}) = {}
              /\ OverrideAtCall = "aws" =>
                    /\ calls # <<>>
                    /\ calls[1].op = "_fetch_aws_secrets"
                    /\ Made(AzureOps) = {}
              /\ OverrideAtCall = "azure" =>
                    /\ calls # <<>>
                    /\ calls[1].op = "_fetch_azure_secrets"
                    /\ Made(AwsOps) = {}

C4_Witness ==
    /\ ViaOrchestrator
    /\ OverrideAtCall = "azure"
    /\ AwsMarker
    /\ ~AzureMarker
    /\ pc = "done"
    /\ Made({"get_secret"}) # {}

\* C5: provider resolution.  _identify_provider returns "aws" whenever
\* LAMBDA_TASK_ROOT is set (also when WEBSITE_INSTANCE_ID is set too),
\* "azure" when only WEBSITE_INSTANCE_ID is set, and raises, returning
\* nothing, when neither is set.
C5_ProviderResolution ==
    /\ entry = "_identify_provider" /\ pc # "start" =>
          /\ AwsMarker => pc = "done" /\ retval = "aws"
          /\ ~AwsMarker /\ AzureMarker => pc = "done" /\ retval = "azure"
          /\ ~AwsMarker /\ ~AzureMarker =>
                pc = "raised" /\ raised = Raise /\ retval = None
    /\ ViaOrchestrator /\ Made({"_identify_provider"}) # {} =>
          /\ AwsMarker => provider = "aws" /\ pc # "raised"
          /\ ~AwsMarker /\ AzureMarker => provider = "azure" /\ pc # "raised"
          /\ ~AwsMarker /\ ~AzureMarker => pc = "raised" /\ raised = Raise

C5_Witness ==
    /\ entry = "_identify_provider"
    /\ pc = "done"
    /\ retval = "aws"
    /\ env["LAMBDA_TASK_ROOT"] = ""
    /\ AzureMarker

\* C6: AWS merge correctness.  When the provider is "aws" and the response
\* carries a string payload that parses as a JSON object, then after the
\* call returns every key of the object holds the object's value for it
\* (SECRET_NAME and SECRET_PROVIDER included) and every other key holds its
\* prior value.
C6_AwsMerge ==
    ViaOrchestrator /\ provider = "aws" /\ response.has /\ response.kind = "object"
    /\ pc # "aws_merge" =>
        /\ pc = "done"
        /\ fault = NoFault
        /\ \A k \in Keys : config[k] = AfterObject(cfg0, response.pairs, k)

C6_Witness ==
    /\ ViaOrchestrator
    /\ pc = "done"
    /\ response.kind = "object"
    /\ Len(response.pairs) = 2
    /\ cfg0["A"] = "0"
    /\ config["A"] = "1"
    /\ config["SECRET_NAME"] = None

\* C7: Azure enumeration.  When the vault name is non-empty and no call
\* fails, the fetcher makes one list call and then, in listing order, one
\* get call per listed secret with a non-empty name; afterwards the mapping
\* holds each fetched value under the fetched name, for the secrets fetched
\* with a non-empty name and a non-null value, later ones overwriting
\* earlier ones, and every other key holds its prior value.
NonEmpty(n) == n \notin {None, ""}
ListedGets ==
    LET named == SelectSeq(listing, NonEmpty)
    IN  [i \in 1..Len(named) |-> Call("get_secret", <<named[i]>>)]
IsVaultTraffic(c) == c.op \in {"list_properties_of_secrets", "get_secret"}

C7_AzureEnumeration ==
    pc = "done" /\ fault = NoFault /\ Made({"SecretClient"}) # {} =>
        /\ SelectSeq(calls, IsVaultTraffic)
              = <<Call("list_properties_of_secrets", <<>>)>> \o ListedGets
        /\ Len(fetched) = Len(ListedGets)
        /\ \A k \in Keys : config[k] = AfterSecrets(cfg0, fetched, k)

C7_Witness ==
    /\ ViaOrchestrator
    /\ pc = "done"
    /\ fault = NoFault
    /\ Len(fetched) = 2
    /\ listing = <<"A", "A">>
    /\ fetched[1].name = "A"
    /\ fetched[2].name = "A"
    /\ fetched[1].value = "1"
    /\ fetched[2].value = ""
    /\ config["A"] = ""

\* C8: Azure without a container name.  With provider "azure" and
\* SECRET_NAME absent or empty, neither init_secret_manager nor
\* _fetch_azure_secrets called directly constructs a credential or a client
\* or makes a list or get call; the mapping is unchanged and the call
\* returns normally.
AzureAtCall ==
    \/ entry = "_fetch_azure_secrets"
    \/ /\ ViaOrchestrator
       /\ \/ OverrideAtCall = "azure"
          \/ OverrideAtCall = None /\ ~AwsMarker /\ AzureMarker

C8_AzureWithoutName ==
    AzureAtCall /\ NameAtCall \in {None, ""} =>
        /\ Made(AzureSdkOps) = {}
        /\ config = cfg0
        /\ raised = NoFault
        /\ pc \in {"start", "az_import", "az_name", "done"}

C8_Witness ==
    /\ entry = "_fetch_azure_secrets"
    /\ cfg0["SECRET_NAME"] = ""
    /\ pc = "done"
    /\ printed = <<"SECRET_NAME not configured for Azure secrets">>

\* C9: AWS response without a string payload.  When the provider is "aws"
\* and the response has no SecretString, or an empty one, the call returns
\* normally, nothing is parsed and the mapping is unchanged.
C9_AwsNoStringPayload ==
    ViaOrchestrator /\ provider = "aws" /\ response # NoResponse
    /\ (~response.has \/ response.kind \in {"none", "empty"}) =>
        /\ pc \in {"aws_merge", "done"}
        /\ Made({"json.loads"}) = {}
        /\ fault = NoFault
        /\ raised = NoFault
        /\ config = cfg0

C9_Witness ==
    /\ ViaOrchestrator
    /\ pc = "done"
    /\ response.has
    /\ response.kind = "empty"
    /\ Made({"get_secret_value"}) # {}

\* C10: an unrecognised provider falls through.  With SECRET_NAME set and
\* SECRET_PROVIDER holding a value other than "aws" or "azure" ("AWS", the
\* empty string), init_secret_manager calls neither the resolver nor a
\* fetcher, makes no provider call, leaves the mapping unchanged and returns
\* normally.
C10_UnrecognisedProvider ==
    ViaOrchestrator /\ NameAtCall # None /\ OverrideAtCall \notin {None, "aws", "azure"}
    /\ pc # "start" =>
        /\ pc = "done"
        /\ raised = NoFault
        /\ calls = <<>>
        /\ printed = <<>>
        /\ config = cfg0

C10_Witness ==
    /\ ViaOrchestrator
    /\ NameAtCall = "testeeduardo"
    /\ OverrideAtCall = "AWS"
    /\ AwsMarker
    /\ pc = "done"

====
